---------------------------- MODULE Spec2Model ----------------------------
(***************************************************************************)
(* A model of src/lib/Characteristic.ts of HAP-NodeJS: the cached value of *)
(* a characteristic, its coercion (validateValue), and the asynchronous    *)
(* get/set negotiation with the application's 'get' and 'set' listeners.   *)
(*                                                                         *)
(* JavaScript values are tagged tuples, so that values of different types  *)
(* can be compared the way === compares them:                              *)
(*   <<"undefined">>  <<"null">>  <<"nan">>  <<"bool", b>>  <<"num", n>>    *)
(*   <<"str", chars>>  <<"error", messageChars>>                           *)
(* A string is the sequence of its characters; numbers are whole numbers.  *)
(* The formats uint32 and uint64 are not modelled: their default maxima    *)
(* lie outside the integers TLC computes with.                             *)
(***************************************************************************)
EXTENDS Integers, Sequences, FiniteSets, TLC

VARIABLES
  displayName,              \* this.displayName
  UUID,                     \* this.UUID
  subscriptions,            \* this.subscriptions (the number of subscribers)
  edges,                    \* the 'subscribe' and 'unsubscribe' events emitted so far, in order
  props,                    \* this.props (the declared constraints)
  eventOnlyCharacteristic,  \* this.eventOnlyCharacteristic
  value,                    \* this.value (the cached value)
  status,                   \* this.status
  getListeners,             \* this.listeners("get").length
  setListeners,             \* this.listeners("set").length
  ops,                      \* ops[id]: a request emitted to the listeners, the closure of its callback and its promise
  called,                   \* called[id]: the flag of once() around the completion callback of ops[id]
  last                      \* what the latest step did: the call, its arguments, the state before it, its result

vars == <<displayName, UUID, subscriptions, edges, props, eventOnlyCharacteristic, value, status, getListeners, setListeners, ops, called, last>>

---------------------------------------------------------------------------
(* Bounds of the model *)

MaxOps == 1

MaxListeners == 1

---------------------------------------------------------------------------
(* JavaScript values *)

Undefined == <<"undefined">>

Null == <<"null">>

NaN == <<"nan">>

Num(n) == <<"num", n>>

Bool(b) == <<"bool", b>>

Str(s) == <<"str", s>>

Err(m) == <<"error", m>>

IsNullish(v) == v = Undefined \/ v = Null

\* ToBoolean: what `if (v)`, `v && ...` and `v || ...` test
Truthy(v) ==
  CASE v[1] = "bool" -> v[2]
    [] v[1] = "num" -> v[2] # 0
    [] v[1] = "str" -> Len(v[2]) > 0
    [] v[1] = "error" -> TRUE
    [] OTHER -> FALSE

IsDigit(c) == c \in {"0", "1", "2", "3", "4", "5", "6", "7", "8", "9"}

DigitVal(c) ==
  CASE c = "0" -> 0 [] c = "1" -> 1 [] c = "2" -> 2 [] c = "3" -> 3 [] c = "4" -> 4
    [] c = "5" -> 5 [] c = "6" -> 6 [] c = "7" -> 7 [] c = "8" -> 8 [] c = "9" -> 9

DigitChar(d) ==
  CASE d = 0 -> "0" [] d = 1 -> "1" [] d = 2 -> "2" [] d = 3 -> "3" [] d = 4 -> "4"
    [] d = 5 -> "5" [] d = 6 -> "6" [] d = 7 -> "7" [] d = 8 -> "8" [] d = 9 -> "9"

\* the number of decimal digits of s that start at position i
RECURSIVE DigitRun(_, _)
DigitRun(s, i) ==
  IF i > Len(s) \/ ~IsDigit(s[i]) THEN 0 ELSE 1 + DigitRun(s, i + 1)

\* the value of the n digits of s that start at position i
RECURSIVE DigitsValue(_, _, _, _)
DigitsValue(s, i, n, acc) ==
  IF n = 0 THEN acc ELSE DigitsValue(s, i + 1, n - 1, acc * 10 + DigitVal(s[i]))

HasSign(s) == Len(s) > 0 /\ s[1] \in {"-", "+"}

\* the position of the first character after an optional sign
AfterSign(s) == IF HasSign(s) THEN 2 ELSE 1

\* the number written by the n digits of s from position start, under the sign of s
SignedDigits(s, start, n) ==
  IF n = 0 THEN NaN
  ELSE IF HasSign(s) /\ s[1] = "-" THEN Num(0 - DigitsValue(s, start, n, 0))
  ELSE Num(DigitsValue(s, start, n, 0))

\* parseInt(s, 10) and parseFloat(s) of a string without '.', 'e' or blanks:
\* an optional sign and the longest run of digits; NaN when there is no digit
ParsePrefix(s) == SignedDigits(s, AfterSign(s), DigitRun(s, AfterSign(s)))

\* /^-?\d+$/.test(s)
numberPattern(s) ==
  IF Len(s) > 0 /\ s[1] = "-"
    THEN DigitRun(s, 2) > 0 /\ DigitRun(s, 2) = Len(s) - 1
    ELSE DigitRun(s, 1) > 0 /\ DigitRun(s, 1) = Len(s)

\* Number(s) of a string: the whole string must be a number; "" is 0
StringToNumber(s) ==
  IF s = <<>> THEN Num(0)
  ELSE IF DigitRun(s, AfterSign(s)) > 0 /\ AfterSign(s) + DigitRun(s, AfterSign(s)) = Len(s) + 1
    THEN ParsePrefix(s)
  ELSE NaN

\* String(n) of a whole number
RECURSIVE NatToString(_)
NatToString(n) ==
  IF n < 10 THEN <<DigitChar(n)>> ELSE Append(NatToString(n \div 10), DigitChar(n % 10))

JSString(v) ==
  CASE v[1] = "str" -> v[2]
    [] v[1] = "num" -> IF v[2] < 0 THEN <<"-">> \o NatToString(0 - v[2]) ELSE NatToString(v[2])
    [] v[1] = "bool" -> IF v[2] THEN <<"t", "r", "u", "e">> ELSE <<"f", "a", "l", "s", "e">>
    [] v[1] = "null" -> <<"n", "u", "l", "l">>
    [] v[1] = "nan" -> <<"N", "a", "N">>
    [] OTHER -> <<"u", "n", "d", "e", "f", "i", "n", "e", "d">>

\* ToNumber, as the relational operators and == apply it
ToNumber(v) ==
  CASE v[1] = "num" -> v
    [] v[1] = "bool" -> Num(IF v[2] THEN 1 ELSE 0)
    [] v[1] = "null" -> Num(0)
    [] v[1] = "str" -> StringToNumber(v[2])
    [] OTHER -> NaN

\* Number.parseInt(v, 10): of the string form of v
parseInt(v) == ParsePrefix(JSString(v))

\* parseFloat(v): the same prefix, the strings of the model holding no fraction
parseFloat(v) == ParsePrefix(JSString(v))

\* x < y and x > y of two numbers: false as soon as one is NaN
NumberLess(x, y) == x # NaN /\ y # NaN /\ x[2] < y[2]

\* a < b and a > b when b is a number or undefined
JSLess(a, b) == NumberLess(ToNumber(a), ToNumber(b))

JSGreater(a, b) == NumberLess(ToNumber(b), ToNumber(a))

\* v == true
LooseEqualsTrue(v) ==
  CASE v[1] = "bool" -> v[2]
    [] v[1] = "num" -> v[2] = 1
    [] v[1] = "str" -> StringToNumber(v[2]) = Num(1)
    [] OTHER -> FALSE

---------------------------------------------------------------------------
(* Status codes of the protocol (lib/HAPServer.ts, HAP table of status codes) *)

Status_SUCCESS == 0

Status_INSUFFICIENT_PRIVILEGES == -70401

Status_SERVICE_COMMUNICATION_FAILURE == -70402

Status_RESOURCE_BUSY == -70403

Status_WRITE_ONLY_CHARACTERISTIC == -70405

Status_NOT_ALLOWED_IN_CURRENT_STATE == -70412

\* error.message: the message of <<"error", message>>, undefined of anything else
ErrorMessage(error) == IF error[1] = "error" THEN error[2] ELSE JSString(Undefined)

\* whether parseInt(message) is a status code of the protocol, as the code tests it
InStatusRange(n) ==
  n >= Status_INSUFFICIENT_PRIVILEGES /\ n <= Status_NOT_ALLOWED_IN_CURRENT_STATE

\* extractHAPStatusFromError(error)
extractHAPStatusFromError(error) ==
  IF numberPattern(ErrorMessage(error)) /\ InStatusRange(ParsePrefix(ErrorMessage(error))[2])
    THEN ParsePrefix(ErrorMessage(error))[2]
    ELSE Status_SERVICE_COMMUNICATION_FAILURE

---------------------------------------------------------------------------
(* Formats, permissions and constraints *)

Formats_BOOL == "bool"

Formats_INT == "int"

Formats_FLOAT == "float"

Formats_STRING == "string"

Formats_UINT8 == "uint8"

Formats_UINT16 == "uint16"

Formats_DATA == "data"

Formats_TLV8 == "tlv8"

Perms_PAIRED_READ == "pr"

Perms_PAIRED_WRITE == "pw"

Perms_NOTIFY == "ev"

Perms_WRITE_RESPONSE == "wr"

\* a list of numbers, as validValues and validValueRanges hold one
List(s) == <<"list", s>>

\* CharacteristicProps with only the format set
BaseProps(format) ==
  [format |-> format, perms |-> {}, unit |-> Undefined, minValue |-> Undefined,
   maxValue |-> Undefined,
   minStep |-> Undefined, maxLen |-> Undefined, validValues |-> Undefined,
   validValueRanges |-> Undefined]

\* getDefaultValue()
getDefaultValue(p) ==
  CASE p.format = Formats_BOOL -> Bool(FALSE)
    [] p.format = Formats_STRING -> Str(<<>>)
    [] p.format = Formats_DATA -> Null
    [] p.format = Formats_TLV8 -> Null
    [] OTHER -> IF Truthy(p.minValue) THEN p.minValue ELSE Num(0)

\* the switch of validateValue: the defaults of the numeric formats
IsNumericType(format) == format \in {Formats_INT, Formats_FLOAT, Formats_UINT8, Formats_UINT16}

DefaultMinValue(format) ==
  CASE format = Formats_INT -> Num(-2147483647 - 1)
    [] format = Formats_FLOAT -> Undefined
    [] OTHER -> Num(0)

DefaultMaxValue(format) ==
  CASE format = Formats_INT -> Num(2147483647)
    [] format = Formats_FLOAT -> Undefined
    [] format = Formats_UINT8 -> Num(255)
    [] format = Formats_UINT16 -> Num(65535)

DefaultMinStep(format) == IF format = Formats_FLOAT THEN Undefined ELSE Num(1)

\* (x && !isNaN(x)) && (x !== null), of a declared minValue, maxValue or minStep
Declared(x) == Truthy(x) /\ ToNumber(x) # NaN /\ x # Null

\* |n|
Abs(n) == IF n < 0 THEN 0 - n ELSE n

\* Decimal.mod: the remainder has the sign of the dividend
DecimalMod(a, b) == IF a >= 0 THEN a % Abs(b) ELSE 0 - ((0 - a) % Abs(b))

\* the quantization of validateValue: new Decimal(parseFloat(v)) less its
\* remainder by the step, then parseInt(toFixed(0)) (the steps of the model are whole)
Quantize(v, step) == Num(parseFloat(v)[2] - DecimalMod(parseFloat(v)[2], step))

\* validValues.includes(v)
Includes(list, v) ==
  v[1] = "num" /\ \E i \in 1..Len(list[2]) : list[2][i] = v[2]

\* the effective bounds and step: the defaults of the format, overridden by props
minValue_resolved(p) == IF Declared(p.minValue) THEN p.minValue ELSE DefaultMinValue(p.format)

maxValue_resolved(p) == IF Declared(p.maxValue) THEN p.maxValue ELSE DefaultMaxValue(p.format)

minStep_resolved(p) == IF Declared(p.minStep) THEN p.minStep ELSE DefaultMinStep(p.format)

\* if (v < lo) v = lo
RaiseTo(v, lo) == IF JSLess(v, lo) THEN lo ELSE v

\* if (v > hi) v = hi
LowerTo(v, hi) == IF JSGreater(v, hi) THEN hi ELSE v

\* if (minStep_resolved !== undefined) { ... }
Stepped(v, step) == IF step # Undefined THEN Quantize(v, step[2]) ELSE v

\* validValueRanges[i], undefined when no range is declared
RangeBound(p, i) ==
  IF p.validValueRanges # Undefined THEN Num(p.validValueRanges[2][i]) ELSE Undefined

\* return newValue == undefined ? null : newValue
NullIfUndefined(v) == IF IsNullish(v) THEN Null ELSE v

\* validateValue from the valid-values test on, v being the clamped and quantized value
validateListed(p, cur, v) ==
  IF p.validValues # Undefined /\ ~Includes(p.validValues, v) THEN cur
  ELSE NullIfUndefined(LowerTo(RaiseTo(v, RangeBound(p, 1)), RangeBound(p, 2)))

\* the numeric branch of validateValue
validateNumeric_UnparsableIsZero(p, cur, newValue) ==
  IF newValue = Bool(FALSE) THEN Num(0)
  ELSE IF newValue = Bool(TRUE) THEN Num(1)
  ELSE IF parseInt(newValue) = NaN THEN Num(0)
  ELSE validateListed(p, cur,
         Stepped(LowerTo(RaiseTo(newValue, minValue_resolved(p)), maxValue_resolved(p)),
                 minStep_resolved(p)))

validateNumeric(p, cur, newValue) ==
  IF newValue = Bool(FALSE) THEN Num(0)
  ELSE IF newValue = Bool(TRUE) THEN Num(1)
  ELSE IF parseInt(newValue) = NaN THEN cur
  ELSE validateListed(p, cur,
         Stepped(LowerTo(RaiseTo(newValue, minValue_resolved(p)), maxValue_resolved(p)),
                 minStep_resolved(p)))

\* myString.substring(0, maxLength) of a string longer than maxLength
Truncated(myString, maxLength) ==
  IF Len(myString) > maxLength THEN SubSeq(myString, 1, maxLength) ELSE myString

\* validateValue(newValue), with this.props = p and this.value = cur
validateValue(p, cur, newValue) ==
  CASE p.format = Formats_BOOL -> Bool(LooseEqualsTrue(newValue))
    [] p.format = Formats_STRING ->
         Str(Truncated(IF Truthy(newValue) THEN JSString(newValue) ELSE <<>>,
                       IF p.maxLen = Undefined THEN 64 ELSE p.maxLen[2]))
    [] IsNumericType(p.format) -> validateNumeric(p, cur, newValue)
    [] OTHER -> NullIfUndefined(newValue)

\* value = validateValue(value); if (value == null) value = getDefaultValue()
OrDefault(p, validated) == IF IsNullish(validated) THEN getDefaultValue(p) ELSE validated

---------------------------------------------------------------------------
(* The inputs of the model *)

\* CharacteristicProps of the given format and permissions
Props(format, perms) == [BaseProps(format) EXCEPT !.perms = perms]

\* the characteristics of the model: the constraints each is constructed with, and
\* whether it is made an event-only characteristic
Characteristics ==
  { <<Props(Formats_UINT8, {Perms_PAIRED_READ, Perms_PAIRED_WRITE, Perms_NOTIFY}), FALSE>>,
    <<[Props(Formats_INT, {Perms_PAIRED_READ, Perms_PAIRED_WRITE, Perms_WRITE_RESPONSE})
         EXCEPT !.minValue = Num(1), !.maxValue = Num(6), !.minStep = Num(2)], FALSE>>,
    <<Props(Formats_BOOL, {Perms_PAIRED_WRITE}), FALSE>>,
    <<[Props(Formats_STRING, {Perms_PAIRED_READ, Perms_NOTIFY}) EXCEPT !.maxLen = Num(2)], TRUE>>,
    <<[Props(Formats_FLOAT, {Perms_PAIRED_WRITE, Perms_WRITE_RESPONSE})
         EXCEPT !.validValues = List(<<1, 2, 7>>)], TRUE>>,
    <<Props(Formats_DATA, {Perms_PAIRED_READ, Perms_PAIRED_WRITE, Perms_WRITE_RESPONSE}), FALSE>> }

\* the values a controller writes and an application returns
RawValues == { Null, Num(1), Num(300) }

\* the write-response payloads an application returns
WriteResponses == { Undefined, Num(5) }

\* the first argument an application gives a completion callback
StatusArgs ==
  { Null, Num(Status_RESOURCE_BUSY), Num(5),
    Err(<<"b", "o", "o", "m">>), Err(<<"-", "7", "0", "4", "0", "3">>) }

\* the context tokens of the callers
Contexts == { "ctxA", "ctxB" }

---------------------------------------------------------------------------
(* Promises, and the record of the latest step *)

Pending == <<"pending">>

Resolved(v) == <<"resolved", v>>

Rejected(s) == <<"rejected", Num(s)>>

None == <<"none">>

\* a completion callback that no listener holds (any more), or that was never handed out
NoOp ==
  [kind |-> "free", context |-> "", value |-> Undefined, oldValue |-> Undefined,
   promise |-> "none", settles |-> 0]

\* the closure and the promise of a request that was emitted to the listeners
NewOp(kind, context, coerced, oldValue) ==
  [kind |-> kind, context |-> context, value |-> coerced, oldValue |-> oldValue,
   promise |-> "pending", settles |-> 0]

\* resolve() or reject() of the promise of an operation: a settled promise stays as it is
Settle(op, outcome) ==
  [op EXCEPT !.promise = IF op.promise = "pending" THEN outcome ELSE op.promise,
             !.settles = op.settles + 1]

ChangeEvent(oldValue, newValue, context) == <<"change", oldValue, newValue, context>>

\* the record of a step, taken in the state the step starts in
Step(op, id, arg, statusArg, context, ret, events) ==
  [op |-> op, id |-> id, arg |-> arg, statusArg |-> statusArg, context |-> context,
   preValue |-> value, preStatus |-> status, preProps |-> props,
   preSubscriptions |-> subscriptions,
   preCalled |-> IF id \in 1..MaxOps THEN called[id] ELSE FALSE,
   threw |-> FALSE, callback |-> FALSE, ret |-> ret, events |-> events]

---------------------------------------------------------------------------
(* The characteristic *)

\* the identifiers of the model that name no live completion callback
FreeIds == { id \in 1..MaxOps : ops[id].kind = "free" }

\* the identifier the next emitted request gets
NextId == CHOOSE id \in FreeIds : \A other \in FreeIds : id <= other

\* new Characteristic(displayName, UUID, props), before any call
Init ==
  /\ displayName = "Characteristic"
  /\ UUID = "00000001"
  /\ subscriptions = 0
  /\ edges = <<>>
  /\ \E c \in Characteristics : props = c[1] /\ eventOnlyCharacteristic = c[2]
  /\ value = Null
  /\ status = Status_SUCCESS
  /\ getListeners = 0
  /\ setListeners = 0
  /\ ops = [id \in 1..MaxOps |-> NoOp]
  /\ called = [id \in 1..MaxOps |-> FALSE]
  /\ last = Step("constructor", 0, Undefined, Undefined, "", None, <<>>)

\* this.eventOnlyCharacteristic || oldValue !== value: whether updateValue and a set emit 'change'
shouldEmitChange_ChangedOnly(eventOnly, oldValue, newValue) == oldValue # newValue

shouldEmitChange(eventOnly, oldValue, newValue) == eventOnly \/ oldValue # newValue

\* oldValue !== value: whether a completed get emits 'change'
valueChanged_Always(oldValue, newValue) == TRUE

valueChanged(oldValue, newValue) == oldValue # newValue

\* writeResponse != null && this.props.perms.includes(Perms.WRITE_RESPONSE)
adoptWriteResponse_PermsIgnored(p, writeResponse) == ~IsNullish(writeResponse)

adoptWriteResponse(p, writeResponse) ==
  ~IsNullish(writeResponse) /\ Perms_WRITE_RESPONSE \in p.perms

\* on("get", listener) and on("set", listener) of the EventEmitter
on(event) ==
  /\ IF event = "get"
       THEN getListeners < MaxListeners /\ getListeners' = getListeners + 1 /\ UNCHANGED setListeners
       ELSE setListeners < MaxListeners /\ setListeners' = setListeners + 1 /\ UNCHANGED getListeners
  /\ last' = Step("on", 0, Str(<<event>>), Undefined, "", None, <<>>)
  /\ UNCHANGED <<displayName, UUID, subscriptions, edges, props, eventOnlyCharacteristic, value, status, ops, called>>

\* removeListener("get", listener) and removeListener("set", listener) of the EventEmitter
removeListener(event) ==
  /\ IF event = "get"
       THEN getListeners > 0 /\ getListeners' = getListeners - 1 /\ UNCHANGED setListeners
       ELSE setListeners > 0 /\ setListeners' = setListeners - 1 /\ UNCHANGED getListeners
  /\ last' = Step("removeListener", 0, Str(<<event>>), Undefined, "", None, <<>>)
  /\ UNCHANGED <<displayName, UUID, subscriptions, edges, props, eventOnlyCharacteristic, value, status, ops, called>>

\* updateValue(value, callback, context); setValue delegates to it
updateValue(newValue, context) ==
  LET stored == OrDefault(props, validateValue(props, value, newValue))
  IN /\ status' = Status_SUCCESS
     /\ value' = stored
     /\ last' = Step("updateValue", 0, newValue, Undefined, context, None,
                     IF shouldEmitChange(eventOnlyCharacteristic, value, stored)
                       THEN <<ChangeEvent(value, stored, context)>> ELSE <<>>)
     /\ UNCHANGED <<displayName, UUID, subscriptions, edges, props, eventOnlyCharacteristic, getListeners, setListeners, ops, called>>

\* the checks handleGetRequest makes, in their order, before it answers
getRequestPath_PermissionLast(p, eventOnly, listeners) ==
  IF eventOnly THEN "event-only"
  ELSE IF ~(Perms_PAIRED_READ \in p.perms) THEN "write-only"
  ELSE IF listeners = 0 THEN "cached"
  ELSE "emit"

getRequestPath_ListenersFirst(p, eventOnly, listeners) ==
  IF ~(Perms_PAIRED_READ \in p.perms) THEN "write-only"
  ELSE IF listeners = 0 THEN "cached"
  ELSE IF eventOnly THEN "event-only"
  ELSE "emit"

getRequestPath(p, eventOnly, listeners) ==
  IF ~(Perms_PAIRED_READ \in p.perms) THEN "write-only"
  ELSE IF eventOnly THEN "event-only"
  ELSE IF listeners = 0 THEN "cached"
  ELSE "emit"

\* return this.status ? Promise.reject(this.status) : Promise.resolve(this.value)
cachedResult_StatusIgnored(recorded, cached) == Resolved(cached)

cachedResult_NeverSettles(recorded, cached) == Pending

cachedResult(recorded, cached) ==
  IF recorded # 0 THEN Rejected(recorded) ELSE Resolved(cached)

\* handleGetRequest(session, context), up to the promise it returns
handleGetRequest(context) ==
  /\ CASE getRequestPath(props, eventOnlyCharacteristic, getListeners) = "write-only" ->
            /\ last' = Step("handleGetRequest", 0, Undefined, Undefined, context,
                            Rejected(Status_WRITE_ONLY_CHARACTERISTIC), <<>>)
            /\ UNCHANGED <<ops, called>>
       [] getRequestPath(props, eventOnlyCharacteristic, getListeners) = "event-only" ->
            /\ last' = Step("handleGetRequest", 0, Undefined, Undefined, context, Resolved(Null), <<>>)
            /\ UNCHANGED <<ops, called>>
       [] getRequestPath(props, eventOnlyCharacteristic, getListeners) = "cached" ->
            /\ last' = Step("handleGetRequest", 0, Undefined, Undefined, context,
                            cachedResult(status, value), <<>>)
            /\ UNCHANGED <<ops, called>>
       [] getRequestPath(props, eventOnlyCharacteristic, getListeners) = "emit" ->
            /\ FreeIds # {}
            /\ ops' = [ops EXCEPT ![NextId] = NewOp("get", context, Undefined, Undefined)]
            /\ called' = [called EXCEPT ![NextId] = FALSE]
            /\ last' = Step("handleGetRequest", NextId, Undefined, Undefined, context, Pending,
                            << <<"get", NextId, context>> >>)
  /\ UNCHANGED <<displayName, UUID, subscriptions, edges, props, eventOnlyCharacteristic, value, status, getListeners, setListeners>>

\* if (status): whether the application completed with an error or a non-success status
completionFailed_ErrorsOnly(statusArg) == statusArg[1] = "error"

completionFailed(statusArg) == Truthy(statusArg)

\* the status an application's completion reports: a number as it is, an Error by its message
reportedStatus(statusArg) ==
  IF statusArg[1] = "num" THEN statusArg[2] ELSE extractHAPStatusFromError(statusArg)

\* the function handleGetRequest hands to once(): it runs when the application completes the get
getCompletion(id, statusArg, v) ==
  IF completionFailed(statusArg) THEN
    /\ status' = reportedStatus(statusArg)
    /\ value' = value
    /\ ops' = [ops EXCEPT ![id] = Settle(@, "rejected")]
    /\ last' = Step("getCallback", id, v, statusArg, ops[id].context,
                    IF ops[id].promise = "pending" THEN Rejected(reportedStatus(statusArg)) ELSE None,
                    <<>>)
  ELSE
    LET stored == OrDefault(props, validateValue(props, value, v))
    IN /\ status' = Status_SUCCESS
       /\ value' = stored
       /\ ops' = [ops EXCEPT ![id] = Settle(@, "resolved")]
       /\ last' = Step("getCallback", id, v, statusArg, ops[id].context,
                       IF ops[id].promise = "pending" THEN Resolved(stored) ELSE None,
                       IF valueChanged(value, stored)
                         THEN <<ChangeEvent(value, stored, ops[id].context)>> ELSE <<>>)

\* handleSetRequest(value, session, context), up to the promise it returns
handleSetRequest(newValue, context) ==
  LET coerced == validateValue(props, value, newValue)
      oldValue == value
  IN /\ status' = Status_SUCCESS
     /\ IF setListeners = 0 THEN
          /\ value' = coerced
          /\ last' = Step("handleSetRequest", 0, newValue, Undefined, context, Resolved(Undefined),
                          IF shouldEmitChange(eventOnlyCharacteristic, oldValue, coerced)
                            THEN <<ChangeEvent(oldValue, coerced, context)>> ELSE <<>>)
          /\ UNCHANGED <<ops, called>>
        ELSE
          /\ FreeIds # {}
          /\ value' = value
          /\ ops' = [ops EXCEPT ![NextId] = NewOp("set", context, coerced, oldValue)]
          /\ called' = [called EXCEPT ![NextId] = FALSE]
          /\ last' = Step("handleSetRequest", NextId, newValue, Undefined, context, Pending,
                          << <<"set", NextId, coerced, context>> >>)
     /\ UNCHANGED <<displayName, UUID, subscriptions, edges, props, eventOnlyCharacteristic, getListeners, setListeners>>

\* the function handleSetRequest hands to once(): it runs when the application completes the set
setCompletion(id, statusArg, writeResponse) ==
  IF completionFailed(statusArg) THEN
    /\ status' = reportedStatus(statusArg)
    /\ value' = value
    /\ ops' = [ops EXCEPT ![id] = Settle(@, "rejected")]
    /\ last' = Step("setCallback", id, writeResponse, statusArg, ops[id].context,
                    IF ops[id].promise = "pending" THEN Rejected(reportedStatus(statusArg)) ELSE None,
                    <<>>)
  ELSE
    LET adopt == adoptWriteResponse(props, writeResponse)
        stored == IF adopt THEN writeResponse ELSE ops[id].value
        payload == IF adopt THEN writeResponse ELSE Undefined
    IN /\ status' = Status_SUCCESS
       /\ value' = stored
       /\ ops' = [ops EXCEPT ![id] = Settle(@, "resolved")]
       /\ last' = Step("setCallback", id, writeResponse, statusArg, ops[id].context,
                       IF ops[id].promise = "pending" THEN Resolved(payload) ELSE None,
                       IF shouldEmitChange(eventOnlyCharacteristic, ops[id].oldValue, ops[id].value)
                         THEN <<ChangeEvent(ops[id].oldValue, ops[id].value, ops[id].context)>>
                         ELSE <<>>)

\* once(func): the first call runs func, a later call does nothing
once(id, func) ==
  IF called[id]
    THEN /\ last' = [Step(IF ops[id].kind = "get" THEN "getCallback" ELSE "setCallback",
                          id, Undefined, Undefined, ops[id].context, None, <<>>)
                       EXCEPT !.threw = FALSE]
         /\ UNCHANGED <<value, status, ops, called>>
    ELSE /\ called' = [called EXCEPT ![id] = TRUE]
         /\ func

\* a 'get' listener calls the completion callback it was given
GetCallback_Unguarded(id, statusArg, v) ==
  /\ called' = [called EXCEPT ![id] = TRUE]
  /\ getCompletion(id, statusArg, v)
  /\ UNCHANGED <<displayName, UUID, subscriptions, edges, props, eventOnlyCharacteristic, getListeners, setListeners>>

GetCallback(id, statusArg, v) ==
  /\ once(id, getCompletion(id, statusArg, v))
  /\ UNCHANGED <<displayName, UUID, subscriptions, edges, props, eventOnlyCharacteristic, getListeners, setListeners>>

\* a 'set' listener calls the completion callback it was given
SetCallback(id, statusArg, writeResponse) ==
  /\ once(id, setCompletion(id, statusArg, writeResponse))
  /\ UNCHANGED <<displayName, UUID, subscriptions, edges, props, eventOnlyCharacteristic, getListeners, setListeners>>

\* the listeners drop the completion callback of a request: it is never called (again)
Forget(id) ==
  /\ ops' = [ops EXCEPT ![id] = NoOp]
  /\ called' = [called EXCEPT ![id] = FALSE]
  /\ last' = Step("forget", id, Undefined, Undefined, ops[id].context, None, <<>>)
  /\ UNCHANGED <<displayName, UUID, subscriptions, edges, props, eventOnlyCharacteristic, value, status, getListeners, setListeners>>

\* the arguments of a completion: a value or payload comes with a success only
CompletionArgs(values) ==
  { <<st, v>> \in StatusArgs \X (values \cup {Undefined}) : Truthy(st) => v = Undefined }

Next ==
  \/ \E event \in {"get", "set"} : on(event)
  \/ \E event \in {"get", "set"} : removeListener(event)
  \/ \E v \in RawValues, context \in Contexts : updateValue(v, context)
  \/ \E context \in Contexts : handleGetRequest(context)
  \/ \E v \in RawValues, context \in Contexts : handleSetRequest(v, context)
  \/ \E id \in 1..MaxOps, a \in CompletionArgs(RawValues) :
       ops[id].kind = "get" /\ GetCallback(id, a[1], a[2])
  \/ \E id \in 1..MaxOps, a \in CompletionArgs(WriteResponses) :
       ops[id].kind = "set" /\ SetCallback(id, a[1], a[2])
  \/ \E id \in 1..MaxOps : ops[id].kind # "free" /\ Forget(id)

Spec == Init /\ [][Next]_vars

---------------------------------------------------------------------------
(* The coercion on its own: characteristics without listeners, over more constraints
   and more inputs *)

\* the constraints the coercion is exercised with
CoercionProps ==
  { Props(Formats_UINT8, {Perms_PAIRED_READ, Perms_PAIRED_WRITE}),
    [Props(Formats_INT, {Perms_PAIRED_READ, Perms_PAIRED_WRITE})
       EXCEPT !.minValue = Num(1), !.maxValue = Num(6), !.minStep = Num(2)],
    [Props(Formats_INT, {Perms_PAIRED_READ, Perms_PAIRED_WRITE})
       EXCEPT !.minValue = Num(-3), !.maxValue = Num(0)],
    [Props(Formats_INT, {Perms_PAIRED_READ, Perms_PAIRED_WRITE})
       EXCEPT !.minValue = Num(-7), !.maxValue = Num(7), !.minStep = Num(2)],
    [Props(Formats_FLOAT, {Perms_PAIRED_READ, Perms_PAIRED_WRITE})
       EXCEPT !.validValues = List(<<1, 2, 7>>)],
    [Props(Formats_FLOAT, {Perms_PAIRED_READ, Perms_PAIRED_WRITE})
       EXCEPT !.minValue = Num(2), !.maxValue = Num(5)],
    [Props(Formats_UINT16, {Perms_PAIRED_READ, Perms_PAIRED_WRITE})
       EXCEPT !.validValueRanges = List(<<2, 4>>)],
    Props(Formats_BOOL, {Perms_PAIRED_READ, Perms_PAIRED_WRITE}),
    [Props(Formats_STRING, {Perms_PAIRED_READ, Perms_PAIRED_WRITE}) EXCEPT !.maxLen = Num(2)] }

\* the raw values given to the coercion
CoercionInputs ==
  { Null, Bool(TRUE), Bool(FALSE),
    Num(-5), Num(0), Num(1), Num(2), Num(5), Num(300),
    Str(<<>>), Str(<<"x">>), Str(<<"2">>), Str(<<"1", "2", "a">>) }

\* what a call of validateValue returns
Returned(v) == <<"returned", v>>

InitCoercion ==
  /\ displayName = "Characteristic"
  /\ UUID = "00000001"
  /\ subscriptions = 0
  /\ edges = <<>>
  /\ props \in CoercionProps
  /\ eventOnlyCharacteristic = FALSE
  /\ value = Null
  /\ status = Status_SUCCESS
  /\ getListeners = 0
  /\ setListeners = 0
  /\ ops = [id \in 1..MaxOps |-> NoOp]
  /\ called = [id \in 1..MaxOps |-> FALSE]
  /\ last = Step("constructor", 0, Undefined, Undefined, "", None, <<>>)

\* this.validateValue(newValue), as updateValue and the request handlers call it
validateValueCall(newValue) ==
  /\ last' = Step("validateValue", 0, newValue, Undefined, "",
                  Returned(validateValue(props, value, newValue)), <<>>)
  /\ UNCHANGED <<displayName, UUID, subscriptions, edges, props, eventOnlyCharacteristic, value, status, getListeners, setListeners,
                 ops, called>>

NextCoercion ==
  \/ \E v \in CoercionInputs : validateValueCall(v)
  \/ \E v \in CoercionInputs : updateValue(v, "ctxA")
  \/ \E v \in CoercionInputs : handleSetRequest(v, "ctxA")

SpecCoercion == InitCoercion /\ [][NextCoercion]_vars


----------------------------------------------------------------------------
\* Properties. `last` describes the step that led to the current state.

FirstCall == last.op \in {"getCallback", "setCallback"} /\ ~last.preCalled
LaterCall == last.op \in {"getCallback", "setCallback"} /\ last.preCalled
ChangeCount == Cardinality({ i \in 1..Len(last.events) : last.events[i][1] = "change" })
GetEmitted == \E i \in 1..Len(last.events) : last.events[i][1] = "get"
Readable == Perms_PAIRED_READ \in props.perms

C2_WriteOnlyRejected ==
  (last.op = "handleGetRequest" /\ ~Readable) =>
     /\ last.ret = Rejected(Status_WRITE_ONLY_CHARACTERISTIC)
     /\ last.events = <<>>
     /\ value = last.preValue
     /\ status = last.preStatus

C2_Witness ==
  /\ last.op = "handleGetRequest"
  /\ ~Readable
  /\ eventOnlyCharacteristic
  /\ getListeners > 0
  /\ value # Null
  /\ status # Status_SUCCESS

\* C3: when the application completes a get successfully with a value, the recorded status
\* becomes SUCCESS, the value is coerced (the format's default stands in for a null result)
\* and cached, the request resolves to the cached value, and a change notification
\* {oldValue, newValue, context} is raised exactly when the cached value now differs.
C3_GetCompletedWithValue ==
  (last.op = "getCallback" /\ FirstCall /\ ~Truthy(last.statusArg)) =>
     /\ status = Status_SUCCESS
     /\ value = (IF IsNullish(validateValue(props, last.preValue, last.arg))
                   THEN getDefaultValue(props)
                   ELSE validateValue(props, last.preValue, last.arg))
     /\ last.ret = Resolved(value)
     /\ last.events = (IF value # last.preValue
                         THEN <<ChangeEvent(last.preValue, value, ops[last.id].context)>>
                         ELSE <<>>)

C3_Witness ==
  /\ last.op = "getCallback"
  /\ FirstCall
  /\ ~Truthy(last.statusArg)
  /\ last.arg = Num(300)
  /\ last.preValue = Num(1)
  /\ value = Num(255)
  /\ ChangeCount = 1

\* C4: when the application completes a get or a set with an error or a non-success
\* status, that status is recorded (a number as it is), the pending request rejects with
\* exactly the recorded status, the cached value is unchanged and no 'change' is raised.
C4_FailedCompletion ==
  (FirstCall /\ Truthy(last.statusArg)) =>
     /\ status # Status_SUCCESS
     /\ (last.statusArg[1] = "num" => status = last.statusArg[2])
     /\ last.ret = Rejected(status)
     /\ value = last.preValue
     /\ last.events = <<>>

C4_Witness ==
  /\ FirstCall
  /\ last.op = "setCallback"
  /\ last.statusArg = Num(Status_RESOURCE_BUSY)
  /\ last.ret = Rejected(Status_RESOURCE_BUSY)
  /\ last.preStatus = Status_SUCCESS
  /\ value # Null

\* C5: a recorded non-success status stays until an operation succeeds (a successful
\* completion by the application, a set with no listener, a direct update) or a new failure
\* replaces it; an operation that has started and not yet succeeded does not clear it, and
\* a cached read without a 'get' listener meanwhile rejects with it.
C5_StatusKeptUntilSuccess ==
  /\ (last.preStatus # Status_SUCCESS /\ status # last.preStatus) =>
        \/ last.op = "updateValue"
        \/ last.op = "handleSetRequest" /\ last.ret = Resolved(Undefined)
        \/ FirstCall
  /\ ( /\ last.op = "handleGetRequest"
       /\ Readable /\ ~eventOnlyCharacteristic /\ getListeners = 0
       /\ last.preStatus # Status_SUCCESS ) => last.ret = Rejected(last.preStatus)

\* C6 as stated: a readable, non-event-only characteristic with no 'get' listener answers
\* a get with the cached value, emits no 'get' and leaves the cached value alone.
C6_CachedReadResolves ==
  ( /\ last.op = "handleGetRequest"
    /\ Readable /\ ~eventOnlyCharacteristic /\ getListeners = 0 ) =>
     /\ last.ret = Resolved(last.preValue)
     /\ ~GetEmitted
     /\ value = last.preValue

\* C6 amended: a readable, non-event-only characteristic with no 'get' listener answers a
\* get with the cached value when the recorded status is SUCCESS and rejects with the
\* recorded status otherwise; either way no 'get' is emitted and value and status stay.
C6_CachedReadResolvesOrRejects ==
  ( /\ last.op = "handleGetRequest"
    /\ Readable /\ ~eventOnlyCharacteristic /\ getListeners = 0 ) =>
     /\ last.preStatus = Status_SUCCESS => last.ret = Resolved(last.preValue)
     /\ last.preStatus # Status_SUCCESS => last.ret = Rejected(last.preStatus)
     /\ ~GetEmitted
     /\ value = last.preValue
     /\ status = last.preStatus

C6_Witness ==
  /\ last.op = "handleGetRequest"
  /\ Readable /\ ~eventOnlyCharacteristic /\ getListeners = 0
  /\ last.preStatus = Status_SUCCESS
  /\ last.ret = Resolved(value)
  /\ value # Null

\* C7: a readable event-only characteristic answers a get with null, whatever the cached
\* value, the recorded status and the listeners; no 'get' is emitted, nothing changes.
C7_EventOnlyReadsNull ==
  (last.op = "handleGetRequest" /\ Readable /\ eventOnlyCharacteristic) =>
     /\ last.ret = Resolved(Null)
     /\ last.events = <<>>
     /\ value = last.preValue
     /\ status = last.preStatus

C7_Witness ==
  /\ last.op = "handleGetRequest"
  /\ Readable /\ eventOnlyCharacteristic
  /\ getListeners > 0
  /\ value # Null
  /\ status # Status_SUCCESS
  /\ last.ret = Resolved(Null)

\* C8: with no 'set' listener, handleSetRequest on any permission set caches the coerced
\* value, resolves without a payload, and raises the change notification when the value
\* changed or the characteristic is event-only.
C8_SetWithoutListener ==
  (last.op = "handleSetRequest" /\ setListeners = 0) =>
     /\ value = validateValue(props, last.preValue, last.arg)
     /\ last.ret = Resolved(Undefined)
     /\ last.events = (IF eventOnlyCharacteristic \/ value # last.preValue
                         THEN <<ChangeEvent(last.preValue, value, last.context)>>
                         ELSE <<>>)

C8_Witness ==
  /\ last.op = "handleSetRequest"
  /\ setListeners = 0
  /\ ~(Perms_PAIRED_WRITE \in props.perms)
  /\ eventOnlyCharacteristic
  /\ value = last.preValue
  /\ value # Null
  /\ ChangeCount = 1

\* C9: with a 'set' listener the listener receives the coerced value; on a successful
\* completion a non-null write-response value is cached and resolved when the permissions
\* include write-response, and otherwise the coerced value is cached and the request
\* resolves without a payload.
C9_SetWithListener ==
  /\ (last.op = "handleSetRequest" /\ setListeners > 0) =>
        /\ last.ret = Pending
        /\ ops[last.id].value = validateValue(props, last.preValue, last.arg)
        /\ last.events = << <<"set", last.id, ops[last.id].value, last.context>> >>
  /\ (last.op = "setCallback" /\ FirstCall /\ ~Truthy(last.statusArg)) =>
        IF ~IsNullish(last.arg) /\ Perms_WRITE_RESPONSE \in props.perms
          THEN value = last.arg /\ last.ret = Resolved(last.arg)
          ELSE value = ops[last.id].value /\ last.ret = Resolved(Undefined)

C9_Witness ==
  /\ last.op = "setCallback"
  /\ FirstCall
  /\ last.statusArg = Null
  /\ last.arg = Num(5)
  /\ Perms_WRITE_RESPONSE \in props.perms
  /\ value = Num(5)
  /\ last.ret = Resolved(Num(5))
  /\ ops[last.id].value # Num(5)

\* C10: a step raises exactly one 'change' when it is a successful update that leaves the
\* cached value different from before, or a successful set or direct update of an
\* event-only characteristic; a failed operation and every other step raise none.
C10_ChangeExactlyOnUpdate ==
  LET direct == last.op = "updateValue"
      setDone == \/ last.op = "handleSetRequest" /\ last.ret = Resolved(Undefined)
                 \/ last.op = "setCallback" /\ FirstCall /\ ~Truthy(last.statusArg)
      getDone == last.op = "getCallback" /\ FirstCall /\ ~Truthy(last.statusArg)
  IN ChangeCount = (IF \/ (direct \/ setDone \/ getDone) /\ value # last.preValue
                       \/ (direct \/ setDone) /\ eventOnlyCharacteristic
                      THEN 1 ELSE 0)


RequestEmitted == \E i \in 1..Len(last.events) : last.events[i][1] \in {"get", "set"}
Settled(ret) == ret[1] \in {"resolved", "rejected"}

\* C11: a get or set that is suspended awaiting the application's completion callback
\* has written nothing: the step that hands the request to a listener and returns a
\* pending promise leaves the cached value and the recorded status as they were.
C11_NothingWrittenBeforeCompletion ==
  (last.op \in {"handleGetRequest", "handleSetRequest"} /\ last.ret = Pending) =>
     /\ value = last.preValue
     /\ status = last.preStatus

\* C12: a promise of handleGetRequest or handleSetRequest settles at most once: within
\* the call when no listener is consulted, in the step of the first call of the completion
\* callback otherwise, and as long as the callback has not been called it stays pending.
C12_SettlesAtMostOnce ==
  /\ \A id \in 1..MaxOps :
        /\ ops[id].settles <= 1
        /\ ops[id].kind \in {"get", "set"} =>
             /\ ops[id].promise \in {"pending", "resolved", "rejected"}
             /\ (ops[id].promise = "pending") <=> ~called[id]
  /\ last.op \in {"handleGetRequest", "handleSetRequest"} =>
        IF RequestEmitted
          THEN last.ret = Pending /\ ops[last.id].promise = "pending"
          ELSE Settled(last.ret)
  /\ FirstCall =>
        /\ Settled(last.ret)
        /\ ops[last.id].promise = last.ret[1]
        /\ ops[last.id].settles = 1

C12_Witness ==
  /\ last.op = "updateValue"
  /\ value # last.preValue
  /\ \E id \in 1..MaxOps : /\ ops[id].kind = "get"
                           /\ ops[id].promise = "pending"
                           /\ ~called[id]


\* the non-success status codes of the protocol
ValidStatusCode(n) ==
  n <= Status_INSUFFICIENT_PRIVILEGES /\ n >= Status_NOT_ALLOWED_IN_CURRENT_STATE

\* C13: a completion with an Error records and rejects with SERVICE_COMMUNICATION_FAILURE,
\* unless the Error's message is a decimal integer that is a status code of the protocol:
\* then it records and rejects with exactly that integer.
C13_ErrorMessageStatus ==
  (FirstCall /\ last.statusArg[1] = "error") =>
     /\ status = (IF /\ numberPattern(last.statusArg[2])
                     /\ ValidStatusCode(ParsePrefix(last.statusArg[2])[2])
                    THEN ParsePrefix(last.statusArg[2])[2]
                    ELSE Status_SERVICE_COMMUNICATION_FAILURE)
     /\ last.ret = Rejected(status)

\* C14: the status recorded and rejected after an application-reported failure is always
\* a status code of the protocol: a numeric status is kept only when it is one, every
\* other status becomes SERVICE_COMMUNICATION_FAILURE.
C14_RecordedStatusIsValid ==
  (FirstCall /\ Truthy(last.statusArg)) =>
     /\ ValidStatusCode(status)
     /\ last.ret = Rejected(status)
     /\ (last.statusArg[1] = "num" /\ ValidStatusCode(last.statusArg[2]))
           => status = last.statusArg[2]
     /\ (last.statusArg[1] = "num" /\ ~ValidStatusCode(last.statusArg[2]))
           => status = Status_SERVICE_COMMUNICATION_FAILURE


\* the values a controller or an application supplies
SuppliedValues == RawValues \cup WriteResponses

\* cached values, and what the coercion returns for a supplied value next to one of them
Coerced(p, cached) ==
  cached \cup { validateValue(p, cur, raw) : cur \in cached, raw \in SuppliedValues }

\* the initial null, the format's default, and the values the coercion can return
ValidatedValues(p) == Coerced(p, Coerced(p, Coerced(p, {Null, getDefaultValue(p)})))

\* C15: the cached value is always the initial null, the format's default or a value the
\* coercion returned: nothing a controller or an application supplied is stored unvalidated.
C15_CachedValueIsValidated == value \in ValidatedValues(props)


----------------------------------------------------------------------------
\* Properties of the coercion, over SpecCoercion.

Coerces == last.op = "validateValue" /\ IsNumericType(props.format)
ParsableInput(x) == x[1] \in {"num", "bool"} \/ (x[1] = "str" /\ numberPattern(x[2]))
UnparsableInput(x) == x[1] # "bool" /\ parseInt(x) = NaN

\* the format's default bound, overridden by a declared one
EffectiveMin(p) == IF p.minValue # Undefined THEN p.minValue ELSE DefaultMinValue(p.format)
EffectiveMax(p) == IF p.maxValue # Undefined THEN p.maxValue ELSE DefaultMaxValue(p.format)

WithinBounds(v, lo, hi) ==
  /\ v[1] = "num"
  /\ lo # Undefined => v[2] >= lo[2]
  /\ hi # Undefined => v[2] <= hi[2]

\* C16: for a numeric format and a number, a boolean or a numeric string as input, the
\* coercion returns a number within [effective min, effective max] (or, where a
\* valid-value list rejects the input, the previous value).
C16_CoercedWithinBounds ==
  (Coerces /\ ParsableInput(last.arg)) =>
     \/ WithinBounds(last.ret[2], EffectiveMin(props), EffectiveMax(props))
     \/ props.validValues # Undefined /\ last.ret[2] = last.preValue

\* C17 as stated: a numeric input that does not parse returns exactly the previous cached
\* value without an error, and a set or a direct update with it leaves the cached value
\* unchanged.
C17_UnparsableKeepsValue ==
  (IsNumericType(props.format) /\ UnparsableInput(last.arg)) =>
     /\ last.op = "validateValue" => last.ret = Returned(last.preValue) /\ ~last.threw
     /\ last.op \in {"handleSetRequest", "updateValue"} => value = last.preValue

\* C17 amended: a numeric input that does not parse returns exactly the previous cached
\* value without an error; a set without listener made with it leaves the cached value
\* unchanged; a direct update leaves it unchanged unless it is still null, and then
\* stores the format's default.
C17_UnparsableKeepsValueOrDefault ==
  (IsNumericType(props.format) /\ UnparsableInput(last.arg)) =>
     /\ last.op = "validateValue" => last.ret = Returned(last.preValue) /\ ~last.threw
     /\ last.op = "handleSetRequest" => value = last.preValue
     /\ last.op = "updateValue" =>
          value = (IF last.preValue = Null THEN getDefaultValue(props) ELSE last.preValue)

C17_Witness ==
  /\ IsNumericType(props.format)
  /\ last.op = "updateValue"
  /\ last.arg = Str(<<"x">>)
  /\ last.preValue = Num(2)
  /\ value = Num(2)

\* C18: with a valid-value list declared, the coercion returns a member of the list or
\* the previous cached value, never a supplied value that is not in the list.
C18_OnlyListedValues ==
  (Coerces /\ props.validValues # Undefined) =>
     \/ Includes(props.validValues, last.ret[2])
     \/ last.ret[2] = last.preValue

\* C19: with a step in effect the coercion is idempotent: coercing its own result, under
\* the same constraints and previous value, returns that result.
C19_CoercionIdempotent ==
  (Coerces /\ minStep_resolved(props) # Undefined) =>
     validateValue(props, last.preValue, last.ret[2]) = last.ret[2]

\* C20: for the boolean format the coercion returns true for every truthy input (true, a
\* non-zero number, a non-empty string) and false for every other input.
C20_BooleanTruthiness ==
  (last.op = "validateValue" /\ props.format = Formats_BOOL) =>
     last.ret = Returned(Bool(Truthy(last.arg)))

---------------------------------------------------------------------------
(* setProps, subscribe and unsubscribe: the calls that configure a characteristic *)

MaxSubscriptions == 3

MaxEdges == 4

\* a property the object given to setProps does not own
Missing == <<"missing">>

\* a property the object given to setProps owns
Given(v) == <<"set", v>>

\* setProps({})
NoProps ==
  [format |-> Missing, perms |-> Missing, unit |-> Missing, minValue |-> Missing,
   maxValue |-> Missing, minStep |-> Missing, maxLen |-> Missing, validValues |-> Missing,
   validValueRanges |-> Missing]

\* if (hasOwnProperty.call(props, key)) this.props[key] = props[key]
Own(given, current) == IF given[1] = "set" THEN given[2] ELSE current

\* for (let key in (props || {})) ...: this.props after the loop
assignProps(p, partial) ==
  [format |-> Own(partial.format, p.format), perms |-> Own(partial.perms, p.perms),
   unit |-> Own(partial.unit, p.unit), minValue |-> Own(partial.minValue, p.minValue),
   maxValue |-> Own(partial.maxValue, p.maxValue), minStep |-> Own(partial.minStep, p.minStep),
   maxLen |-> Own(partial.maxLen, p.maxLen),
   validValues |-> Own(partial.validValues, p.validValues),
   validValueRanges |-> Own(partial.validValueRanges, p.validValueRanges)]

boundsInverted_Unchecked(p) == FALSE

\* minValue != null && maxValue != null, and minValue > maxValue
boundsInverted(p) ==
  ~IsNullish(p.minValue) /\ ~IsNullish(p.maxValue) /\ JSGreater(p.minValue, p.maxValue)

\* this.props.minValue = undefined; this.props.maxValue = undefined
clearBounds(p) == [p EXCEPT !.minValue = Undefined, !.maxValue = Undefined]

\* this.props when setProps returns or throws
propsAfter(assigned) == IF boundsInverted(assigned) THEN clearBounds(assigned) ELSE assigned

\* the constraints a characteristic is constructed with
ConfigProps ==
  { Props(Formats_INT, {Perms_PAIRED_READ, Perms_PAIRED_WRITE}),
    [Props(Formats_INT, {Perms_PAIRED_READ, Perms_PAIRED_WRITE})
       EXCEPT !.minValue = Num(1), !.maxValue = Num(6), !.minStep = Num(2)],
    [Props(Formats_INT, {Perms_PAIRED_READ}) EXCEPT !.minValue = Num(3), !.maxValue = Num(3)],
    [Props(Formats_FLOAT, {Perms_PAIRED_READ, Perms_NOTIFY})
       EXCEPT !.minValue = Num(6), !.maxValue = Num(1), !.minStep = Num(2)] }

\* the objects given to setProps
PartialProps ==
  { NoProps,
    [NoProps EXCEPT !.minValue = Given(Num(5))],
    [NoProps EXCEPT !.maxValue = Given(Num(2))],
    [NoProps EXCEPT !.minValue = Given(Null), !.maxValue = Given(Num(9))],
    [NoProps EXCEPT !.minValue = Given(Num(4)), !.maxValue = Given(Num(0)),
                    !.minStep = Given(Num(3))],
    [NoProps EXCEPT !.format = Given(Formats_FLOAT), !.unit = Given(Str(<<"l", "u", "x">>)),
                    !.perms = Given({Perms_PAIRED_READ})] }

\* new Characteristic(displayName, UUID, props): this.props = props, then this.setProps({})
InitConfig ==
  /\ displayName = "Characteristic"
  /\ UUID = "00000001"
  /\ subscriptions = 0
  /\ edges = <<>>
  /\ eventOnlyCharacteristic = FALSE
  /\ value = Null
  /\ status = Status_SUCCESS
  /\ getListeners = 0
  /\ setListeners = 0
  /\ ops = [id \in 1..MaxOps |-> NoOp]
  /\ called = [id \in 1..MaxOps |-> FALSE]
  /\ \E p \in ConfigProps :
       /\ props = propsAfter(assignProps(p, NoProps))
       /\ last = [Step("constructor", 0, p, Undefined, "", None, <<>>)
                    EXCEPT !.threw = boundsInverted(assignProps(p, NoProps)), !.preProps = p]

\* a constructor that threw hands no characteristic to its caller
Constructed == ~(last.op = "constructor" /\ last.threw)

\* setProps(props)
setProps(partial) ==
  /\ Constructed
  /\ props' = propsAfter(assignProps(props, partial))
  /\ last' = [Step("setProps", 0, partial, Undefined, "", None, <<>>)
                EXCEPT !.threw = boundsInverted(assignProps(props, partial))]
  /\ UNCHANGED <<displayName, UUID, subscriptions, edges, eventOnlyCharacteristic, value,
                 status, getListeners, setListeners, ops, called>>

firstSubscriber_Always(n) == TRUE

\* this.subscriptions === 0
firstSubscriber(n) == n = 0

wasOne_AtMostOne(n) == n <= 1

\* const wasOne = this.subscriptions === 1
wasOne(n) == n = 1

floorAtZero_Unfloored(n) == n

\* Math.max(this.subscriptions, 0)
floorAtZero(n) == IF n > 0 THEN n ELSE 0

\* this.emit(event) of CharacteristicEventTypes.SUBSCRIBE or UNSUBSCRIBE, when cond holds
EmitIf(cond, event) == IF cond THEN <<event>> ELSE <<>>

\* subscribe()
subscribe ==
  /\ Constructed
  /\ subscriptions < MaxSubscriptions
  /\ Len(edges) < MaxEdges
  /\ subscriptions' = subscriptions + 1
  /\ edges' = edges \o EmitIf(firstSubscriber(subscriptions), "subscribe")
  /\ last' = Step("subscribe", 0, Undefined, Undefined, "", None,
                  EmitIf(firstSubscriber(subscriptions), "subscribe"))
  /\ UNCHANGED <<displayName, UUID, props, eventOnlyCharacteristic, value, status,
                 getListeners, setListeners, ops, called>>

\* unsubscribe()
unsubscribe ==
  /\ Constructed
  /\ Len(edges) < MaxEdges
  /\ subscriptions' = floorAtZero(subscriptions - 1)
  /\ edges' = edges \o EmitIf(wasOne(subscriptions), "unsubscribe")
  /\ last' = Step("unsubscribe", 0, Undefined, Undefined, "", None,
                  EmitIf(wasOne(subscriptions), "unsubscribe"))
  /\ UNCHANGED <<displayName, UUID, props, eventOnlyCharacteristic, value, status,
                 getListeners, setListeners, ops, called>>

NextConfig ==
  \/ \E partial \in PartialProps : setProps(partial)
  \/ subscribe
  \/ unsubscribe

SpecConfig == InitConfig /\ [][NextConfig]_vars

---------------------------------------------------------------------------
(* Claims about the configuration calls, over SpecConfig *)

\* both bounds are set
BothSet(p) == p.minValue[1] = "num" /\ p.maxValue[1] = "num"

\* the constraints the latest constructor or setProps call asked for
Requested ==
  IF last.op = "constructor" THEN last.arg ELSE assignProps(last.preProps, last.arg)

\* C21: whenever minValue and maxValue are both set, minValue <= maxValue; a constructor
\* or setProps call that asks for minValue > maxValue throws and leaves both unset.
C21_BoundsOrdered ==
  /\ BothSet(props) => props.minValue[2] <= props.maxValue[2]
  /\ ( /\ last.op \in {"constructor", "setProps"}
       /\ BothSet(Requested)
       /\ Requested.minValue[2] > Requested.maxValue[2] ) =>
        /\ last.threw
        /\ props.minValue = Undefined
        /\ props.maxValue = Undefined

C21_Witness ==
  /\ last.op = "setProps"
  /\ BothSet(last.preProps)
  /\ last.arg.maxValue = Missing
  /\ last.threw
  /\ props.minValue = Undefined
  /\ props.maxValue = Undefined

\* C22: a setProps call that throws for minValue > maxValue changes no constraint other
\* than minValue and maxValue.
C22_NoPartialMutation ==
  (last.op = "setProps" /\ last.threw) =>
     /\ props.format = last.preProps.format
     /\ props.perms = last.preProps.perms
     /\ props.unit = last.preProps.unit
     /\ props.minStep = last.preProps.minStep
     /\ props.maxLen = last.preProps.maxLen
     /\ props.validValues = last.preProps.validValues
     /\ props.validValueRanges = last.preProps.validValueRanges

\* C23: subscribe() raises the count by exactly one and emits 'subscribe' exactly when
\* the count was 0; unsubscribe() emits 'unsubscribe' exactly when the count was 1.
C23_EdgeEvents ==
  /\ last.op = "subscribe" =>
       /\ subscriptions = last.preSubscriptions + 1
       /\ last.events = (IF last.preSubscriptions = 0 THEN <<"subscribe">> ELSE <<>>)
  /\ last.op = "unsubscribe" =>
       last.events = (IF last.preSubscriptions = 1 THEN <<"unsubscribe">> ELSE <<>>)

C23_Witness ==
  /\ last.op = "subscribe"
  /\ last.preSubscriptions = 1
  /\ subscriptions = 2
  /\ last.events = <<>>
  /\ edges = <<"subscribe">>

\* C24: the count is never negative; unsubscribe() at a count of 0 leaves it at 0, emits
\* nothing and does not throw; a subscribe() at a count of 0 takes it to 1 and emits
\* 'subscribe'.
C24_CountNeverNegative ==
  /\ subscriptions >= 0
  /\ (last.op = "unsubscribe" /\ last.preSubscriptions = 0) =>
       subscriptions = 0 /\ last.events = <<>> /\ ~last.threw
  /\ (last.op = "subscribe" /\ last.preSubscriptions = 0) =>
       subscriptions = 1 /\ last.events = <<"subscribe">>

C24_Witness ==
  /\ last.op = "unsubscribe"
  /\ last.preSubscriptions = 0
  /\ subscriptions = 0
  /\ last.events = <<>>
  /\ Len(edges) = 2

\* C25: the 'subscribe' and 'unsubscribe' events emitted so far alternate and start with
\* 'subscribe'; one more 'subscribe' than 'unsubscribe' has been emitted exactly when the
\* count is positive, and as many of each otherwise.
C25_EdgesAlternate ==
  /\ \A i \in 1..Len(edges) :
       edges[i] = (IF i % 2 = 1 THEN "subscribe" ELSE "unsubscribe")
  /\ Cardinality({ i \in 1..Len(edges) : edges[i] = "subscribe" })
       = Cardinality({ i \in 1..Len(edges) : edges[i] = "unsubscribe" })
           + (IF subscriptions > 0 THEN 1 ELSE 0)

C25_Witness ==
  /\ edges = <<"subscribe", "unsubscribe", "subscribe">>
  /\ subscriptions = 2

---------------------------------------------------------------------------
(* toHAP, serialize and deserialize: the wire record and the persisted form *)

\* the characters of the model's strings: "U+00E9" is a character of two UTF-8 bytes,
\* "U+FFFD" the replacement character (three bytes), every other one is ASCII
Utf8Width(c) ==
  CASE c = "U+00E9" -> 2
    [] c = "U+FFFD" -> 3
    [] OTHER -> 1

\* the UTF-8 bytes of one character: byte k of character c is <<c, k>>
CharBytes(c) == [k \in 1..Utf8Width(c) |-> <<c, k>>]

\* Buffer.from(s, 'utf8'): the bytes of the characters, in order
RECURSIVE BufferFrom(_)
BufferFrom(s) ==
  IF s = <<>> THEN <<>>
  ELSE IF Len(s) = 1 THEN CharBytes(s[1])
  ELSE BufferFrom(SubSeq(s, 1, Len(s) \div 2)) \o BufferFrom(SubSeq(s, Len(s) \div 2 + 1, Len(s)))

\* whether byte b of the bytes belongs to a character all of whose bytes are there
InWholeChar(bytes, b) ==
  /\ b - bytes[b][2] + 1 >= 1
  /\ b - bytes[b][2] + Utf8Width(bytes[b][1]) <= Len(bytes)
  /\ \A k \in 1..Utf8Width(bytes[b][1]) :
       bytes[b - bytes[b][2] + k] = <<bytes[b][1], k>>

\* what the decoder puts out at byte b: the character at its first byte, nothing at its
\* further bytes, the replacement character at a byte of no whole character
DecodedAt(bytes, b) ==
  IF ~InWholeChar(bytes, b) THEN "U+FFFD"
  ELSE IF bytes[b][2] = 1 THEN bytes[b][1]
  ELSE ""

IsChar(c) == c # ""

\* buf.toString('utf8')
BufferToString(bytes) == SelectSeq([b \in 1..Len(bytes) |-> DecodedAt(bytes, b)], IsChar)

\* buf.toString('utf8', 0, end)
SliceToString(bytes, end) ==
  BufferToString(SubSeq(bytes, 1, IF end < Len(bytes) THEN end ELSE Len(bytes)))

\* a key the wire record does not have
Absent == <<"absent">>

\* if (props.x != null) hap.x = props.x
WhenDeclared(v) == IF IsNullish(v) THEN Absent ELSE v

\* match[1].length of decimalPlaces: the number of digits right of the decimal point
FractionDigits(s) ==
  IF \E i \in 1..Len(s) : s[i] = "."
    THEN Len(s) - (CHOOSE i \in 1..Len(s) : s[i] = ".")
    ELSE 0

\* decimalPlaces(num), of a number whose string form has no exponent
decimalPlaces(num) == FractionDigits(JSString(num))

\* Math.pow(10, n)
RECURSIVE Pow10(_)
Pow10(n) == IF n <= 0 THEN 1 ELSE 10 * Pow10(n - 1)

\* Math.round(value * pow) / pow, of a whole number or NaN
RoundedTo(v, pow) == IF v = NaN THEN NaN ELSE Num((v[2] * pow) \div pow)

\* lines 797-800 of toHAP: the cached value, kept within the declared bounds
wireClamped(p, v) ==
  IF ~IsNullish(p.maxValue)
       /\ JSGreater(IF ~IsNullish(p.minValue) /\ JSLess(v, p.minValue) THEN p.minValue ELSE v,
                    p.maxValue)
    THEN p.maxValue
  ELSE IF ~IsNullish(p.minValue) /\ JSLess(v, p.minValue) THEN p.minValue
  ELSE v

\* lines 801-819 of toHAP: the final normalization of the numeric formats
wireNormalized(p, v) ==
  CASE p.format \in {Formats_INT, Formats_UINT8, Formats_UINT16} -> parseInt(v)
    [] p.format = Formats_FLOAT ->
         IF ~IsNullish(p.minStep)
           THEN RoundedTo(parseFloat(v), Pow10(decimalPlaces(p.minStep)))
           ELSE parseFloat(v)
    [] OTHER -> v

\* lines 795-823 of toHAP: the value the record is built with
wireValue(p, eventOnly, v) == IF eventOnly THEN Null ELSE wireNormalized(p, wireClamped(p, v))

\* Buffer.from(value, 'utf8') throws a TypeError when value is not a string
bufferThrows(p, v) == p.format = Formats_STRING /\ v[1] # "str"

\* lines 853-861 of toHAP: hap.value of a string-format characteristic
wireString(v) ==
  IF Len(BufferFrom(v[2])) > 256 THEN Str(SliceToString(BufferFrom(v[2]), 256)) ELSE v

\* lines 853-861 of toHAP: hap.maxLen of a string-format characteristic
wireMaxLen(v) ==
  IF Len(BufferFrom(v[2])) > 256 THEN Num(256)
  ELSE IF Len(BufferFrom(v[2])) > 64 THEN Num(Len(BufferFrom(v[2])))
  ELSE Absent

\* the options given to toHAP: none, or an object with the flag omitValues
Opt(omitValues) == <<"opt", omitValues>>

valueOmitted_PermsOnly(perms, opt) == Perms_PAIRED_READ \notin perms

\* perms.indexOf(Perms.PAIRED_READ) == -1, or opt && opt.omitValues
valueOmitted(perms, opt) ==
  Perms_PAIRED_READ \notin perms \/ (opt[1] = "opt" /\ opt[2])

\* a list that is declared and not empty
NonEmptyList(l) == ~IsNullish(l) /\ Len(l[2]) > 0

\* the record toHAP(opt) returns, but for iid and type that the identifier cache and
\* toShortForm supply; v is the value the record is built with
hapRecord(name, p, v, opt) ==
  [perms |-> p.perms, format |-> p.format, description |-> name,
   value |-> IF valueOmitted(p.perms, opt) THEN Absent
             ELSE IF p.format = Formats_STRING THEN wireString(v) ELSE v,
   validValues |-> IF NonEmptyList(p.validValues) THEN p.validValues ELSE Absent,
   validValueRanges |->
     IF NonEmptyList(p.validValueRanges) /\ Len(p.validValueRanges[2]) % 2 = 0
       THEN p.validValueRanges ELSE Absent,
   unit |-> WhenDeclared(p.unit), maxValue |-> WhenDeclared(p.maxValue),
   minValue |-> WhenDeclared(p.minValue), minStep |-> WhenDeclared(p.minStep),
   maxLen |-> IF p.format = Formats_STRING THEN wireMaxLen(v) ELSE Absent]

\* toHAP(opt)
toHAP(opt) ==
  /\ last' = [Step("toHAP", 0, opt, Undefined, "",
                   IF bufferThrows(props, wireValue(props, eventOnlyCharacteristic, value))
                     THEN None
                     ELSE Returned(hapRecord(displayName, props,
                                             wireValue(props, eventOnlyCharacteristic, value),
                                             opt)),
                   <<>>)
                EXCEPT !.threw =
                  bufferThrows(props, wireValue(props, eventOnlyCharacteristic, value))]
  /\ UNCHANGED <<displayName, UUID, subscriptions, edges, props, eventOnlyCharacteristic,
                 value, status, getListeners, setListeners, ops, called>>

\* clone(object, extend) of lib/util/clone: a new object with the properties of both
clone(object, extend) ==
  [key \in DOMAIN object \cup DOMAIN extend |->
     IF key \in DOMAIN extend THEN extend[key] ELSE object[key]]

\* Characteristic.serialize(characteristic)
serialize(characteristic) ==
  [displayName |-> characteristic.displayName, UUID |-> characteristic.UUID,
   props |-> clone(<<>>, characteristic.props), value |-> characteristic.value,
   eventOnlyCharacteristic |-> characteristic.eventOnlyCharacteristic]

restoredValue_Fresh(json) == Null

\* characteristic.value = json.value
restoredValue(json) == json.value

\* Characteristic.deserialize(json), when the constructor returns
deserialize(json) ==
  [displayName |-> json.displayName, UUID |-> json.UUID,
   props |-> propsAfter(assignProps(json.props, NoProps)),
   value |-> restoredValue(json), eventOnlyCharacteristic |-> json.eventOnlyCharacteristic,
   status |-> Status_SUCCESS, subscriptions |-> 0]

\* this characteristic, as the argument of serialize
Self ==
  [displayName |-> displayName, UUID |-> UUID, props |-> props, value |-> value,
   eventOnlyCharacteristic |-> eventOnlyCharacteristic]

\* the persisted forms handed to deserialize: what serialize returned, and the same with
\* bounds edited so that minValue > maxValue
PersistedForms ==
  { serialize(Self),
    [serialize(Self) EXCEPT !.props.minValue = Num(9), !.props.maxValue = Num(2)] }

\* Characteristic.serialize(this)
serializeCall ==
  /\ last' = Step("serialize", 0, Undefined, Undefined, "", Returned(serialize(Self)), <<>>)
  /\ UNCHANGED <<displayName, UUID, subscriptions, edges, props, eventOnlyCharacteristic,
                 value, status, getListeners, setListeners, ops, called>>

\* Characteristic.deserialize(json)
deserializeCall(json) ==
  /\ last' = [Step("deserialize", 0, json, Undefined, "",
                   IF boundsInverted(assignProps(json.props, NoProps))
                     THEN None ELSE Returned(deserialize(json)), <<>>)
                EXCEPT !.threw = boundsInverted(assignProps(json.props, NoProps))]
  /\ UNCHANGED <<displayName, UUID, subscriptions, edges, props, eventOnlyCharacteristic,
                 value, status, getListeners, setListeners, ops, called>>

\* n times the character c
Repeat(c, n) == [i \in 1..n |-> c]

\* the characteristics whose wire record and persisted form are taken
WireCharacteristics ==
  { <<[Props(Formats_STRING, {Perms_PAIRED_READ, Perms_PAIRED_WRITE})
         EXCEPT !.maxLen = Num(256)], FALSE>>,
    <<[Props(Formats_STRING, {Perms_PAIRED_WRITE}) EXCEPT !.maxLen = Num(256)], FALSE>>,
    <<Props(Formats_STRING, {Perms_PAIRED_READ, Perms_NOTIFY}), TRUE>>,
    <<[Props(Formats_UINT8, {Perms_PAIRED_READ, Perms_PAIRED_WRITE, Perms_NOTIFY})
         EXCEPT !.unit = Str(<<"l", "u", "x">>)], FALSE>>,
    <<[Props(Formats_INT, {Perms_PAIRED_WRITE})
         EXCEPT !.minValue = Num(1), !.maxValue = Num(6), !.validValueRanges = List(<<1, 6>>)],
      FALSE>>,
    <<[Props(Formats_FLOAT, {Perms_PAIRED_READ, Perms_NOTIFY})
         EXCEPT !.minStep = Num(1), !.validValues = List(<<1, 2, 7>>)], TRUE>> }

\* the values the application stores: strings of 40, 100, 300 and 301 UTF-8 bytes, numbers
WireValues ==
  { Str(Repeat("a", 40)), Str(Repeat("U+00E9", 50)), Str(Repeat("U+00E9", 150)),
    Str(<<"a">> \o Repeat("U+00E9", 150)), Num(2), Num(300) }

\* the options toHAP is called with
ToHAPOptions == { Undefined, Opt(FALSE), Opt(TRUE) }

InitWire ==
  /\ displayName \in {"Brightness", "Name"}
  /\ UUID = "00000001"
  /\ subscriptions = 0
  /\ edges = <<>>
  /\ \E c \in WireCharacteristics : props = c[1] /\ eventOnlyCharacteristic = c[2]
  /\ value = Null
  /\ status = Status_SUCCESS
  /\ getListeners = 0
  /\ setListeners = 0
  /\ ops = [id \in 1..MaxOps |-> NoOp]
  /\ called = [id \in 1..MaxOps |-> FALSE]
  /\ last = Step("constructor", 0, Undefined, Undefined, "", None, <<>>)

NextWire ==
  \/ \E v \in WireValues : updateValue(v, "ctxA")
  \/ \E opt \in ToHAPOptions : toHAP(opt)
  \/ serializeCall
  \/ \E json \in PersistedForms : deserializeCall(json)

SpecWire == InitWire /\ [][NextWire]_vars

---------------------------------------------------------------------------
(* Claims about the wire record and the persisted form, over SpecWire *)

\* the number of UTF-8 bytes of a string: one for each character, one more for each
\* two-byte character, two more for each replacement character
ByteLength(s) ==
  Len(s) + Cardinality({ i \in 1..Len(s) : s[i] = "U+00E9" })
         + 2 * Cardinality({ i \in 1..Len(s) : s[i] = "U+FFFD" })

\* the latest step is a toHAP call that returned a record
Projected == last.op = "toHAP" /\ ~last.threw

\* C26: the record toHAP returns has no 'value' key when the permissions lack paired-read,
\* whatever the cached value, and when the option omitValues is set, whatever the
\* permissions; in every other case it has the key.
C26_ValueKeyPresence ==
  Projected =>
    ( last.ret[2].value = Absent
        <=> \/ Perms_PAIRED_READ \notin props.perms
            \/ last.arg = Opt(TRUE) )

C26_Witness ==
  /\ Projected
  /\ Perms_PAIRED_READ \notin props.perms
  /\ value # Null
  /\ last.arg = Opt(FALSE)
  /\ last.ret[2].value = Absent

\* C27: for a string-format characteristic whose cached value has L UTF-8 bytes, toHAP
\* returns a record; with L > 256 its value, when present, has exactly 256 bytes and its
\* maxLen is 256; with 64 < L <= 256 the value is the cached one and maxLen is L; with
\* L <= 64 the value is the cached one and the record has no maxLen.
C27_StringByteBudget ==
  (last.op = "toHAP" /\ props.format = Formats_STRING /\ value[1] = "str"
     /\ ~eventOnlyCharacteristic) =>
    /\ ~last.threw
    /\ ByteLength(value[2]) > 256 =>
         /\ last.ret[2].maxLen = Num(256)
         /\ last.ret[2].value # Absent => ByteLength(last.ret[2].value[2]) = 256
    /\ (ByteLength(value[2]) > 64 /\ ByteLength(value[2]) <= 256) =>
         /\ last.ret[2].maxLen = Num(ByteLength(value[2]))
         /\ last.ret[2].value # Absent => last.ret[2].value = value
    /\ ByteLength(value[2]) <= 64 =>
         /\ last.ret[2].maxLen = Absent
         /\ last.ret[2].value # Absent => last.ret[2].value = value

\* C28: deserialize(serialize(c)) of a characteristic c with valid constraints returns a
\* characteristic with the display name, type identifier, constraints, cached value and
\* event-only flag of c, and serialize(c) changes nothing of c.
C28_RoundTrip ==
  /\ ( /\ last.op = "deserialize"
       /\ last.arg.displayName = displayName /\ last.arg.UUID = UUID
       /\ last.arg.props = props /\ last.arg.value = value
       /\ last.arg.eventOnlyCharacteristic = eventOnlyCharacteristic ) =>
        /\ ~last.threw
        /\ last.ret[2].displayName = displayName
        /\ last.ret[2].UUID = UUID
        /\ last.ret[2].props = props
        /\ last.ret[2].value = value
        /\ last.ret[2].eventOnlyCharacteristic = eventOnlyCharacteristic
  /\ last.op = "serialize" =>
        /\ props = last.preProps
        /\ value = last.preValue
        /\ status = last.preStatus
        /\ last.ret[2].props = props

C28_Witness ==
  /\ last.op = "deserialize"
  /\ ~last.threw
  /\ eventOnlyCharacteristic
  /\ value = Num(2)
  /\ last.ret[2].value = Num(2)
  /\ last.ret[2].props.validValues = List(<<1, 2, 7>>)

---------------------------------------------------------------------------
(* Claims about the change notification, over Spec *)

\* C29: every 'change' event that updateValue, handleGetRequest or handleSetRequest
\* emits, also through their completion callbacks, carries as oldValue the cached value
\* of the moment just before the update and as newValue the cached value just after it.
C29_ChangeCarriesCachedValues ==
  \A i \in 1..Len(last.events) :
    last.events[i][1] = "change" =>
      /\ last.events[i][2] = last.preValue
      /\ last.events[i][3] = value

---------------------------------------------------------------------------
(* Claims about the step quantization, over SpecCoercion *)

\* n within the bounds lo and hi that validateValue resolved (undefined: no bound)
ClampedTo(n, lo, hi) ==
  IF hi # Undefined /\ (IF lo # Undefined /\ n < lo[2] THEN lo[2] ELSE n) > hi[2] THEN hi[2]
  ELSE IF lo # Undefined /\ n < lo[2] THEN lo[2]
  ELSE n

\* the greatest multiple of step that is at most n
FloorToStep(n, step) == step * (n \div step)

\* C30: with a step in effect (and no valid-value list or range declared) the coercion of
\* a number returns the greatest multiple of the step that is at most the clamped input:
\* it rounds downward, also for negative inputs.
C30_QuantizesDownward ==
  ( /\ Coerces
    /\ last.arg[1] = "num"
    /\ minStep_resolved(props) # Undefined
    /\ props.validValues = Undefined
    /\ props.validValueRanges = Undefined ) =>
     last.ret = Returned(Num(FloorToStep(ClampedTo(last.arg[2], minValue_resolved(props),
                                                    maxValue_resolved(props)),
                                         minStep_resolved(props)[2])))

---------------------------------------------------------------------------
(* setValue and updateValue with their optional callback *)

\* callback(): the application's function runs and sees the cached value
CallbackEvent(seen) == <<"callback", seen>>

\* if (callback) callback()
callbackRun(callback, seen) == IF callback THEN <<CallbackEvent(seen)>> ELSE <<>>

\* if (eventOnlyCharacteristic || oldValue !== value) this.emit('change', ...)
changeRaised(eventOnly, oldValue, newValue, context) ==
  IF shouldEmitChange(eventOnly, oldValue, newValue)
    THEN <<ChangeEvent(oldValue, newValue, context)>> ELSE <<>>

callbackThenChange_ChangeFirst(calls, changes) == changes \o calls

\* lines 525-531: the callback is called, then 'change' is emitted
callbackThenChange(calls, changes) == calls \o changes

\* setValue(newValue, callback, context), which is updateValue(newValue, callback, context);
\* callback tells whether a callback is given
setValue(newValue, callback, context) ==
  /\ status' = Status_SUCCESS
  /\ value' = OrDefault(props, validateValue(props, value, newValue))
  /\ last' = [Step("setValue", 0, newValue, Undefined, context, None,
                   callbackThenChange(
                     callbackRun(callback, OrDefault(props, validateValue(props, value, newValue))),
                     changeRaised(eventOnlyCharacteristic, value,
                                  OrDefault(props, validateValue(props, value, newValue)),
                                  context)))
                EXCEPT !.callback = callback]
  /\ UNCHANGED <<displayName, UUID, subscriptions, edges, props, eventOnlyCharacteristic,
                 getListeners, setListeners, ops, called>>

NextUpdate ==
  \/ \E event \in {"get", "set"} : on(event)
  \/ \E v \in RawValues : handleSetRequest(v, "ctxA")
  \/ \E id \in 1..MaxOps, a \in CompletionArgs(WriteResponses) :
       ops[id].kind = "set" /\ SetCallback(id, a[1], a[2])
  \/ \E v \in RawValues, callback \in BOOLEAN, context \in Contexts :
       setValue(v, callback, context)

SpecUpdate == Init /\ [][NextUpdate]_vars

---------------------------------------------------------------------------
(* Claims about setValue and updateValue, over SpecUpdate *)

\* the events of the latest step with the given name
EventsNamed(name) == { i \in 1..Len(last.events) : last.events[i][1] = name }

---------------------------------------------------------------------------
(* Claims about the totality and the secrecy of the wire record, over SpecWire *)

\* C32: toHAP returns a record and throws nothing in every reachable state, also for a
\* string-format characteristic whose cached value is still null and for a string-format
\* event-only characteristic, and it changes neither the cached value, the status, the
\* constraints nor the subscriber count.
C32_ToHAPTotal ==
  last.op = "toHAP" =>
    /\ ~last.threw
    /\ last.ret[1] = "returned"
    /\ value = last.preValue
    /\ status = last.preStatus
    /\ props = last.preProps
    /\ subscriptions = last.preSubscriptions

\* what toHAP(opt) does on this characteristic were its cached value v
OutcomeWith(v, opt) ==
  IF bufferThrows(props, wireValue(props, eventOnlyCharacteristic, v)) THEN None
  ELSE Returned(hapRecord(displayName, props, wireValue(props, eventOnlyCharacteristic, v), opt))

\* the cached values this characteristic can hold: null, and what an update stores as it is
Storable(v) == v = Null \/ OrDefault(props, validateValue(props, value, v)) = v

\* C33: when the permissions lack paired-read, what toHAP returns does not depend on the
\* cached value: the same characteristic with any other cached value returns the same
\* record.
C33_NonReadableValueHidden ==
  (last.op = "toHAP" /\ Perms_PAIRED_READ \notin props.perms) =>
    \A v \in WireValues \cup {Null} :
      Storable(v) => OutcomeWith(v, last.arg) = last.ret


====
